---- MODULE Spec2Model ----
(***************************************************************************)
(* A model of the two programs of jshriver/ucinetwork:                     *)
(*   uciclient.rs  terminal <-> TCP relay (two pump threads, optional log) *)
(*   uciserver.rs  TCP <-> spawned engine relay, one connection at a time  *)
(* One behaviour of the model is one run of one of the two programs; the   *)
(* variable role, fixed by Init, says which.                               *)
(***************************************************************************)
EXTENDS Integers, Sequences, FiniteSets, TLC

\* ------------------------------------------------------------- bounds
\* terminal lines the client reads in one run
MaxLines == 2
\* chunks a peer (or the engine) produces in one session
MaxChunks == 2
\* connections the server accepts in one run
MaxSessions == 2
\* write failures that the failing call survives (stdout, log) injected in one run
MaxFaults == 1

\* -------------------------------------------------------------- bytes
LF == "LF"
CR == "CR"
SP == "SP"

\* what the user can type: the raw bytes of one terminal line, terminator included
RawLines ==
  { <<"g", LF>>,
    <<"q", "u", "i", "t", LF>>,
    <<SP, "q", "u", "i", "t", CR, LF>> }

\* what the i-th read of a connection or of a pipe returns: neighbours differ,
\* in content and in length
ChunkAt(i) == IF i % 2 = 1 THEN <<"a">> ELSE <<"b", "c">>

Last(s) == s[Len(s)]
Front(s) == SubSeq(s, 1, Len(s) - 1)
Prefix(s, k) == SubSeq(s, 1, k)
IsPrefix(s, t) == Len(s) <= Len(t) /\ SubSeq(t, 1, Len(s)) = s

\* how many bytes a failing write_all can have put out before the error: the
\* two ends of the range 0 .. Len - 1, none of them and all but the last
Partial(bytes) == {0, Len(bytes) - 1}

RECURSIVE Flatten(_)
Flatten(ss) == IF ss = <<>> THEN <<>> ELSE Head(ss) \o Flatten(Tail(ss))

\* BufRead::lines: the line without its "\n", and without the "\r" before it
StripEol(raw) ==
  IF raw # <<>> /\ Last(raw) = LF
  THEN IF Front(raw) # <<>> /\ Last(Front(raw)) = CR
       THEN Front(Front(raw))
       ELSE Front(raw)
  ELSE raw

\* format!("{}\n", line)
line_with_newline(l) == Append(l, LF)

IsWhite(c) == c \in {SP, CR, LF, "TAB"}

RECURSIVE TrimStart(_)
TrimStart(s) ==
  IF s # <<>> /\ IsWhite(Head(s)) THEN TrimStart(Tail(s)) ELSE s

RECURSIVE TrimEnd(_)
TrimEnd(s) ==
  IF s # <<>> /\ IsWhite(Last(s)) THEN TrimEnd(Front(s)) ELSE s

\* str::trim
Trim(s) == TrimEnd(TrimStart(s))

\* line.trim() == "quit"
IsQuit(l) == Trim(l) = <<"q", "u", "i", "t">>

\* the direction markers of the log
MarkerOut == <<">", ">", SP>>
MarkerIn == <<"<", "<", SP>>

Threads == {"stdin", "stdout"}

VARIABLES
  role,            \* "client" or "server": the program that runs
  enable_logging,  \* cfg.enable_logging
  shutdown,        \* the AtomicBool shared by the two client threads
  cpc,             \* client: where each pump thread is
  cexit,           \* client: why each pump thread left its loop ("" while it runs)
  cmain,           \* client: where main is, from the joins on
  line,            \* stdin_thread: the line being handled
  buf,             \* stdout_thread: buf[..n] of the last read
  write_stream,    \* bytes the connection has accepted from the client
  stdout,          \* bytes the client's standard output has accepted
  logfile,         \* bytes appended to the log file in this run
  lock,            \* holder of the log Mutex, "" when free
  linesRead,       \* history: the lines the stdin_thread has read
  sent,            \* history: the units write_all has sent whole
  chunksRead,      \* history: the chunks the stdout_thread has read
  forwarded,       \* history: the chunks stdout has accepted whole
  tees,            \* history: one record per tee, in the order of lock acquisition
  faults,          \* injected write failures so far
  polls,           \* connection reads completed since the stdin_thread read quit and
                   \* ended: 0, 1, or 2 for more than one
  fwds,            \* chunks handed to stdout since the shutdown flag was set: 0, 1,
                   \* or 2 for more than one
  \* the server
  smain,           \* where main is: the accept loop, handle_client, or crashed
  sess,            \* connections accepted so far; the last one is the current session
  child,           \* per session, the engine process: none, running, exited, reaped
  killed,          \* per session, whether child.kill() was called
  spc,             \* per session, where each pump thread is
  sexit,           \* why each pump thread of the current session left its loop
  peer,            \* the client's end of the current connection: open or closed
  netIn,           \* chunks the peer has sent and the server has not read yet
  peerSent,        \* chunks the peer has sent on the current connection
  pipeOut,         \* chunks the engine has written and the server has not read yet
  engSent,         \* chunks the current engine has written
  sbuf,            \* per thread, buf[..n] of its last read
  engine_stdin,    \* bytes the current engine's stdin has accepted
  conn_out,        \* bytes the current connection has accepted from the server
  netRead,         \* history: the chunks the stdin_thread has read
  pipeRead         \* history: the chunks the stdout_thread has read

cvars == <<enable_logging, shutdown, cpc, cexit, cmain, line, buf, write_stream,
           stdout, logfile, lock, linesRead, sent, chunksRead, forwarded, tees,
           faults, polls, fwds>>

svars == <<smain, sess, child, killed, spc, sexit, peer, netIn, peerSent, pipeOut, engSent,
           sbuf, engine_stdin, conn_out, netRead, pipeRead>>

vars == <<role, cvars, svars>>

Sessions == 1 .. MaxSessions

\* The variables of the program that does not run keep these values: no
\* action of that program is enabled in them. ServerStart(m) is also how the
\* server starts, with main in the accept loop.
ServerStart(m) ==
  /\ smain = m
  /\ sess = 0
  /\ child = [k \in Sessions |-> "none"]
  /\ killed = [k \in Sessions |-> FALSE]
  /\ spc = [k \in Sessions |-> [stdin |-> "none", stdout |-> "none"]]
  /\ sexit = [stdin |-> "", stdout |-> ""]
  /\ peer = "open"
  /\ netIn = <<>>
  /\ peerSent = 0
  /\ pipeOut = <<>>
  /\ engSent = 0
  /\ sbuf = [stdin |-> <<>>, stdout |-> <<>>]
  /\ engine_stdin = <<>>
  /\ conn_out = <<>>
  /\ netRead = <<>>
  /\ pipeRead = <<>>

ClientIdle ==
  /\ enable_logging = FALSE
  /\ shutdown = FALSE
  /\ cpc = [stdin |-> "none", stdout |-> "none"]
  /\ cexit = [stdin |-> "", stdout |-> ""]
  /\ cmain = "none"
  /\ line = <<>>
  /\ buf = <<>>
  /\ write_stream = <<>>
  /\ stdout = <<>>
  /\ logfile = <<>>
  /\ lock = ""
  /\ linesRead = <<>>
  /\ sent = <<>>
  /\ chunksRead = <<>>
  /\ forwarded = <<>>
  /\ tees = <<>>
  /\ faults = 0
  /\ polls = 0
  /\ fwds = 0

\* ------------------------------------------------------------- client

ClientInit ==
  /\ role = "client"
  /\ enable_logging \in BOOLEAN
  /\ shutdown = FALSE
  /\ cpc = [stdin |-> "read", stdout |-> "check"]
  /\ cexit = [stdin |-> "", stdout |-> ""]
  /\ cmain = "join_stdin"
  /\ line = <<>>
  /\ buf = <<>>
  /\ write_stream = <<>>
  /\ stdout = <<>>
  /\ logfile = <<>>
  /\ lock = ""
  /\ linesRead = <<>>
  /\ sent = <<>>
  /\ chunksRead = <<>>
  /\ forwarded = <<>>
  /\ tees = <<>>
  /\ faults = 0
  /\ polls = 0
  /\ fwds = 0
  /\ ServerStart("none")

Goto(t, where) == cpc' = [cpc EXCEPT ![t] = where]

Exit(t, why) ==
  /\ cpc' = [cpc EXCEPT ![t] = "done"]
  /\ cexit' = [cexit EXCEPT ![t] = why]

\* a variant of AfterWrite: the tee is left out
AfterWriteNoTee(t) == IF t = "stdin" THEN "quit" ELSE "check"

\* a variant of AfterWrite: the tee is entered whether or not logging is enabled
AfterWriteAlwaysTee(t) == "tee"

\* the pc a thread continues at after its tee (or in place of it, without a log)
AfterTee(t) == IF t = "stdin" THEN "quit" ELSE "check"

AfterWrite(t) == IF enable_logging THEN "tee" ELSE AfterTee(t)

\* for line in reader.lines(): Ok(line)
StdinReadLine ==
  /\ cpc.stdin = "read"
  /\ Len(linesRead) < MaxLines
  /\ \E raw \in RawLines :
       /\ line' = StripEol(raw)
       /\ linesRead' = Append(linesRead, StripEol(raw))
  /\ Goto("stdin", "write")
  /\ UNCHANGED <<role, svars, enable_logging, shutdown, cexit, cmain, buf, write_stream,
                 stdout, logfile, lock, sent, chunksRead, forwarded, tees, faults,
                 polls, fwds>>

\* the iterator ends (end of input), or yields Err(_) => break
StdinReadEnd ==
  /\ cpc.stdin = "read"
  /\ \E why \in {"eof", "read_error"} : Exit("stdin", why)
  /\ UNCHANGED <<role, svars, enable_logging, shutdown, cmain, line, buf, write_stream,
                 stdout, logfile, lock, linesRead, sent, chunksRead, forwarded,
                 tees, faults, polls, fwds>>

\* write_stream.write_all(bytes) succeeds; flush (a no-op on a TcpStream)
StdinWrite ==
  /\ cpc.stdin = "write"
  /\ write_stream' = write_stream \o line_with_newline(line)
  /\ sent' = Append(sent, line_with_newline(line))
  /\ Goto("stdin", AfterWrite("stdin"))
  /\ UNCHANGED <<role, svars, enable_logging, shutdown, cexit, cmain, line, buf, stdout,
                 logfile, lock, linesRead, chunksRead, forwarded, tees, faults,
                 polls, fwds>>

\* a variant of StdinWriteFail: the failed write is not a reason to stop
StdinWriteFailContinue ==
  /\ cpc.stdin = "write"
  /\ \E k \in Partial(line_with_newline(line)) :
       write_stream' = write_stream \o Prefix(line_with_newline(line), k)
  /\ Goto("stdin", "read")
  /\ UNCHANGED <<role, svars, enable_logging, shutdown, cexit, cmain, line, buf,
                 stdout, logfile, lock, linesRead, sent, chunksRead, forwarded,
                 tees, faults, polls, fwds>>

\* a variant of StdinWriteFail: a quit line whose write failed still signals
StdinWriteFailSignals ==
  /\ cpc.stdin = "write"
  /\ \E k \in Partial(line_with_newline(line)) :
       write_stream' = write_stream \o Prefix(line_with_newline(line), k)
  /\ shutdown' = IsQuit(line)
  /\ Exit("stdin", "write_error")
  /\ UNCHANGED <<role, svars, enable_logging, cmain, line, buf, stdout, logfile,
                 lock, linesRead, sent, chunksRead, forwarded, tees, faults, polls,
                 fwds>>

\* write_stream.write_all(bytes) fails after k bytes: break
StdinWriteFail ==
  /\ cpc.stdin = "write"
  /\ \E k \in Partial(line_with_newline(line)) :
       write_stream' = write_stream \o Prefix(line_with_newline(line), k)
  /\ Exit("stdin", "write_error")
  /\ UNCHANGED <<role, svars, enable_logging, shutdown, cmain, line, buf, stdout, logfile,
                 lock, linesRead, sent, chunksRead, forwarded, tees, faults, polls, fwds>>

\* a variant of StdinQuitCheck: the thread also stops, and signals, once the
\* stdout_thread has ended
StdinQuitCheckWatchesPeer ==
  /\ cpc.stdin = "quit"
  /\ IF IsQuit(line) \/ cpc.stdout = "done"
     THEN /\ shutdown' = TRUE
          /\ Exit("stdin", "quit")
     ELSE /\ Goto("stdin", "read")
          /\ UNCHANGED <<shutdown, cexit>>
  /\ UNCHANGED <<role, svars, enable_logging, cmain, line, buf, write_stream, stdout,
                 logfile, lock, linesRead, sent, chunksRead, forwarded, tees,
                 faults, polls, fwds>>

\* if line.trim() == "quit" { shutdown_flag.store(true); break }
StdinQuitCheck ==
  /\ cpc.stdin = "quit"
  /\ IF IsQuit(line)
     THEN /\ shutdown' = TRUE
          /\ Exit("stdin", "quit")
     ELSE /\ Goto("stdin", "read")
          /\ UNCHANGED <<shutdown, cexit>>
  /\ UNCHANGED <<role, svars, enable_logging, cmain, line, buf, write_stream, stdout,
                 logfile, lock, linesRead, sent, chunksRead, forwarded, tees,
                 faults, polls, fwds>>

\* what a thread tees: the bytes it has just sent, or the chunk it has just received
Payload(t) == IF t = "stdin" THEN line_with_newline(line) ELSE buf

Marker(t) == IF t = "stdin" THEN MarkerOut ELSE MarkerIn

\* the tee a thread is in: the last one it began
MyTee(t) ==
  CHOOSE i \in 1 .. Len(tees) :
    /\ tees[i].dir = t
    /\ \A j \in (i + 1) .. Len(tees) : tees[j].dir # t

\* log.write_all(bytes) puts the first k bytes in the file (all of them: Ok)
LogWrite(t, bytes, k) ==
  /\ logfile' = logfile \o Prefix(bytes, k)
  /\ tees' = [tees EXCEPT ![MyTee(t)].written = @ \o Prefix(bytes, k),
                          ![MyTee(t)].failed = @ \/ k < Len(bytes)]

\* a variant of TeeBeginWith: the log is written without taking the Mutex
TeeBeginNoMutex(t, k) ==
  /\ cpc[t] = "tee"
  /\ lock' = t
  /\ logfile' = logfile \o Prefix(Marker(t), k)
  /\ tees' = Append(tees, [dir |-> t, payload |-> Payload(t),
                           written |-> Prefix(Marker(t), k),
                           failed |-> k < Len(Marker(t))])
  /\ Goto(t, "payload")
  /\ UNCHANGED <<role, svars, enable_logging, shutdown, cexit, cmain, line, buf,
                 write_stream, stdout, linesRead, sent, chunksRead, forwarded,
                 polls, fwds>>

\* One tee is two steps: TeeBegin takes the Mutex and writes the marker,
\* TeeEnd writes the payload, flushes and drops the guard. The other thread
\* can see nothing between the lock and the marker write, nor between the
\* payload write and the unlock.

\* if let Ok(mut log) = log.lock() { let _ = log.write_all(b">> ") / b"<< "
\* lock() blocks while the other thread holds the Mutex. No thread can panic
\* while it holds the guard, so the Mutex is never poisoned and lock() never
\* returns Err. The write puts k bytes in the file: all of them (Ok), or fewer
\* (Err, dropped by let _).
TeeBeginWith(t, k) ==
  /\ cpc[t] = "tee"
  /\ lock = ""
  /\ lock' = t
  /\ logfile' = logfile \o Prefix(Marker(t), k)
  /\ tees' = Append(tees, [dir |-> t, payload |-> Payload(t),
                           written |-> Prefix(Marker(t), k),
                           failed |-> k < Len(Marker(t))])
  /\ Goto(t, "payload")
  /\ UNCHANGED <<role, svars, enable_logging, shutdown, cexit, cmain, line, buf,
                 write_stream, stdout, linesRead, sent, chunksRead, forwarded,
                 polls, fwds>>

TeeBegin(t) ==
  /\ TeeBeginWith(t, Len(Marker(t)))
  /\ UNCHANGED faults

TeeBeginFail(t) ==
  /\ faults < MaxFaults
  /\ faults' = faults + 1
  /\ \E k \in Partial(Marker(t)) : TeeBeginWith(t, k)

\* a variant of TeeEndWith: a failed log write ends the thread
TeeEndStopsOnError(t, k) ==
  /\ cpc[t] = "payload"
  /\ LogWrite(t, Payload(t), k)
  /\ lock' = ""
  /\ IF k < Len(Payload(t))
     THEN Exit(t, "log_error")
     ELSE /\ Goto(t, AfterTee(t))
          /\ UNCHANGED cexit
  /\ UNCHANGED <<role, svars, enable_logging, shutdown, cmain, line, buf,
                 write_stream, stdout, linesRead, sent, chunksRead, forwarded,
                 polls, fwds>>

\* let _ = log.write_all(bytes) / &buf[..n]; let _ = log.flush(); } }
\* A File holds no buffer, so flush moves nothing, whatever it returns.
TeeEndWith(t, k) ==
  /\ cpc[t] = "payload"
  /\ LogWrite(t, Payload(t), k)
  /\ lock' = ""
  /\ Goto(t, AfterTee(t))
  /\ UNCHANGED <<role, svars, enable_logging, shutdown, cexit, cmain, line, buf,
                 write_stream, stdout, linesRead, sent, chunksRead, forwarded,
                 polls, fwds>>

TeeEnd(t) ==
  /\ TeeEndWith(t, Len(Payload(t)))
  /\ UNCHANGED faults

TeeEndFail(t) ==
  /\ faults < MaxFaults
  /\ faults' = faults + 1
  /\ \E k \in Partial(Payload(t)) : TeeEndWith(t, k)

\* a variant of StdoutCheck: the thread clears the flag it has seen
StdoutCheckClearsFlag ==
  /\ cpc.stdout = "check"
  /\ IF shutdown
     THEN /\ Exit("stdout", "shutdown")
          /\ shutdown' = FALSE
     ELSE /\ Goto("stdout", "read")
          /\ UNCHANGED <<cexit, shutdown>>
  /\ UNCHANGED <<role, svars, enable_logging, cmain, line, buf, write_stream,
                 stdout, logfile, lock, linesRead, sent, chunksRead, forwarded,
                 tees, faults, polls, fwds>>

\* a variant of StdoutCheck: the flag is not looked at
StdoutCheckNoBreak ==
  /\ cpc.stdout = "check"
  /\ Goto("stdout", "read")
  /\ UNCHANGED <<role, svars, enable_logging, shutdown, cexit, cmain, line, buf,
                 write_stream, stdout, logfile, lock, linesRead, sent, chunksRead,
                 forwarded, tees, faults, polls, fwds>>

\* if shutdown_check.load(SeqCst) { break }
StdoutCheck ==
  /\ cpc.stdout = "check"
  /\ IF shutdown
     THEN Exit("stdout", "shutdown")
     ELSE /\ Goto("stdout", "read")
          /\ UNCHANGED cexit
  /\ UNCHANGED <<role, svars, enable_logging, shutdown, cmain, line, buf, write_stream,
                 stdout, logfile, lock, linesRead, sent, chunksRead, forwarded,
                 tees, faults, polls, fwds>>

\* a read of the connection has returned, after the stdin_thread read quit and ended
Polled ==
  polls' = IF cpc.stdin = "done" /\ linesRead # <<>> /\ IsQuit(Last(linesRead))
              /\ polls < 2
           THEN polls + 1
           ELSE polls

\* read_stream.read(&mut buf): Ok(n), n > 0
StdoutReadData ==
  /\ cpc.stdout = "read"
  /\ Len(chunksRead) < MaxChunks
  /\ buf' = ChunkAt(Len(chunksRead) + 1)
  /\ chunksRead' = Append(chunksRead, ChunkAt(Len(chunksRead) + 1))
  /\ Goto("stdout", "write")
  /\ Polled
  /\ UNCHANGED <<role, svars, enable_logging, shutdown, cexit, cmain, line, write_stream,
                 stdout, logfile, lock, linesRead, sent, forwarded, tees, faults, fwds>>

\* a variant of StdoutReadEnd: the thread signals shutdown when the peer closes
StdoutReadEndSignals ==
  /\ cpc.stdout = "read"
  /\ \E why \in {"eof", "read_error"} : Exit("stdout", why)
  /\ shutdown' = TRUE
  /\ Polled
  /\ UNCHANGED <<role, svars, enable_logging, cmain, line, buf, write_stream,
                 stdout, logfile, lock, linesRead, sent, chunksRead, forwarded,
                 tees, faults, fwds>>

\* Ok(0) => break (the peer closed), or Err(_) => break
StdoutReadEnd ==
  /\ cpc.stdout = "read"
  /\ \E why \in {"eof", "read_error"} : Exit("stdout", why)
  /\ Polled
  /\ UNCHANGED <<role, svars, enable_logging, shutdown, cmain, line, buf, write_stream,
                 stdout, logfile, lock, linesRead, sent, chunksRead, forwarded,
                 tees, faults, fwds>>

\* a variant of StdoutTimeout: a timeout ends the thread like any other error
StdoutTimeoutBreaks ==
  /\ cpc.stdout = "read"
  /\ Exit("stdout", "timeout")
  /\ Polled
  /\ UNCHANGED <<role, svars, enable_logging, shutdown, cmain, line, buf,
                 write_stream, stdout, logfile, lock, linesRead, sent, chunksRead,
                 forwarded, tees, faults, fwds>>

\* Err(WouldBlock | TimedOut) => continue: the 100 ms read timeout
StdoutTimeout ==
  /\ cpc.stdout = "read"
  /\ Goto("stdout", "check")
  /\ Polled
  /\ UNCHANGED <<role, svars, enable_logging, shutdown, cexit, cmain, line, buf,
                 write_stream, stdout, logfile, lock, linesRead, sent, chunksRead,
                 forwarded, tees, faults, fwds>>

\* a chunk has been handed to stdout.write_all, after the shutdown flag was set
Handed == fwds' = IF shutdown /\ fwds < 2 THEN fwds + 1 ELSE fwds

\* let _ = stdout.write_all(&buf[..n]); let _ = stdout.flush();  both succeed
StdoutWrite ==
  /\ cpc.stdout = "write"
  /\ stdout' = stdout \o buf
  /\ forwarded' = Append(forwarded, buf)
  /\ Handed
  /\ Goto("stdout", AfterWrite("stdout"))
  /\ UNCHANGED <<role, svars, enable_logging, shutdown, cexit, cmain, line, buf,
                 write_stream, logfile, lock, linesRead, sent, chunksRead, tees,
                 faults, polls>>

\* the write (or the flush) fails with k bytes of the chunk out; the error is
\* dropped and the thread goes on
StdoutWriteFail ==
  /\ cpc.stdout = "write"
  /\ faults < MaxFaults
  /\ faults' = faults + 1
  /\ \E k \in Partial(buf) : stdout' = stdout \o Prefix(buf, k)
  /\ Handed
  /\ Goto("stdout", AfterWrite("stdout"))
  /\ UNCHANGED <<role, svars, enable_logging, shutdown, cexit, cmain, line, buf,
                 write_stream, logfile, lock, linesRead, sent, chunksRead,
                 forwarded, tees, polls>>

\* let _ = stdin_thread.join()
JoinStdin ==
  /\ cmain = "join_stdin"
  /\ cpc.stdin = "done"
  /\ cmain' = "join_stdout"
  /\ UNCHANGED <<role, svars, enable_logging, shutdown, cpc, cexit, line, buf,
                 write_stream, stdout, logfile, lock, linesRead, sent, chunksRead,
                 forwarded, tees, faults, polls, fwds>>

\* a variant of JoinStdout: main does not wait for the stdout_thread
JoinStdoutNoWait ==
  /\ cmain = "join_stdout"
  /\ cmain' = "shutdown"
  /\ UNCHANGED <<role, svars, enable_logging, shutdown, cpc, cexit, line, buf,
                 write_stream, stdout, logfile, lock, linesRead, sent, chunksRead,
                 forwarded, tees, faults, polls, fwds>>

\* let _ = stdout_thread.join()
JoinStdout ==
  /\ cmain = "join_stdout"
  /\ cpc.stdout = "done"
  /\ cmain' = "shutdown"
  /\ UNCHANGED <<role, svars, enable_logging, shutdown, cpc, cexit, line, buf,
                 write_stream, stdout, logfile, lock, linesRead, sent, chunksRead,
                 forwarded, tees, faults, polls, fwds>>

\* let _ = shutdown_stream.shutdown(Shutdown::Both); "Disconnected from server"
ShutdownStream ==
  /\ cmain = "shutdown"
  /\ cmain' = "closed"
  /\ UNCHANGED <<role, svars, enable_logging, shutdown, cpc, cexit, line, buf,
                 write_stream, stdout, logfile, lock, linesRead, sent, chunksRead,
                 forwarded, tees, faults, polls, fwds>>

StdinThread ==
  \/ StdinReadLine
  \/ StdinReadEnd
  \/ StdinWrite
  \/ StdinWriteFail
  \/ StdinQuitCheck

StdoutThread ==
  \/ StdoutCheck
  \/ StdoutReadData
  \/ StdoutReadEnd
  \/ StdoutTimeout
  \/ StdoutWrite
  \/ StdoutWriteFail

Tee ==
  \E t \in Threads :
    \/ TeeBegin(t)
    \/ TeeBeginFail(t)
    \/ TeeEnd(t)
    \/ TeeEndFail(t)

ClientMain ==
  \/ JoinStdin
  \/ JoinStdout
  \/ ShutdownStream

ClientNext == StdinThread \/ StdoutThread \/ Tee \/ ClientMain

\* ------------------------------------------------------------- server

ServerInit ==
  /\ role = "server"
  /\ ServerStart("accept")
  /\ ClientIdle

SGoto(t, where) == spc' = [spc EXCEPT ![sess][t] = where]

SExit(t, why) ==
  /\ spc' = [spc EXCEPT ![sess][t] = "done"]
  /\ sexit' = [sexit EXCEPT ![t] = why]

\* the current session is between the spawn of its threads and its end
InSession == smain \in {"spawn", "setup", "join_stdin", "join_stdout", "kill", "wait"}

\* for stream in listener.incoming(): Ok(stream); peer_addr() succeeds; handle_client
\* is entered with a new connection
Accept ==
  /\ smain = "accept"
  /\ sess < MaxSessions
  /\ sess' = sess + 1
  /\ smain' = "spawn"
  /\ peer' = "open"
  /\ netIn' = <<>>
  /\ peerSent' = 0
  /\ pipeOut' = <<>>
  /\ engSent' = 0
  /\ sexit' = [stdin |-> "", stdout |-> ""]
  /\ sbuf' = [stdin |-> <<>>, stdout |-> <<>>]
  /\ engine_stdin' = <<>>
  /\ conn_out' = <<>>
  /\ netRead' = <<>>
  /\ pipeRead' = <<>>
  /\ UNCHANGED <<role, cvars, child, killed, spc>>

\* Err(e) => eprintln!("Connection failed"): the loop goes on
AcceptErr ==
  /\ smain = "accept"
  /\ sess < MaxSessions
  /\ UNCHANGED vars

\* stream.peer_addr().unwrap() panics on the main thread: the process ends
AcceptPanic ==
  /\ smain = "accept"
  /\ sess < MaxSessions
  /\ smain' = "crashed"
  /\ UNCHANGED <<role, cvars, sess, child, killed, spc, sexit, peer, netIn,
                 peerSent, pipeOut, engSent, sbuf, engine_stdin, conn_out, netRead,
                 pipeRead>>

\* let mut child = cmd.spawn().expect("failed to spawn engine")  succeeds
Spawn ==
  /\ smain = "spawn"
  /\ child' = [child EXCEPT ![sess] = "running"]
  /\ smain' = "setup"
  /\ UNCHANGED <<role, cvars, sess, killed, spc, sexit, peer, netIn, peerSent,
                 pipeOut, engSent, sbuf, engine_stdin, conn_out, netRead, pipeRead>>

\* spawn() fails: expect panics on the main thread, the process ends
SpawnPanic ==
  /\ smain = "spawn"
  /\ smain' = "crashed"
  /\ UNCHANGED <<role, cvars, sess, child, killed, spc, sexit, peer, netIn,
                 peerSent, pipeOut, engSent, sbuf, engine_stdin, conn_out, netRead,
                 pipeRead>>

\* child.stdin.take(), child.stdout.take() (Some, both were piped),
\* stream.try_clone() succeeds, the two threads are spawned
Setup ==
  /\ smain = "setup"
  /\ spc' = [spc EXCEPT ![sess] = [stdin |-> "read", stdout |-> "read"]]
  /\ smain' = "join_stdin"
  /\ UNCHANGED <<role, cvars, sess, child, killed, sexit, peer, netIn, peerSent,
                 pipeOut, engSent, sbuf, engine_stdin, conn_out, netRead, pipeRead>>

\* stream.try_clone().expect("failed to clone stream") panics (or thread::spawn
\* does): the process ends, and nothing has killed the engine
SetupPanic ==
  /\ smain = "setup"
  /\ smain' = "crashed"
  /\ UNCHANGED <<role, cvars, sess, child, killed, spc, sexit, peer, netIn,
                 peerSent, pipeOut, engSent, sbuf, engine_stdin, conn_out, netRead,
                 pipeRead>>

\* let _ = stdin_thread.join()
SrvJoinStdin ==
  /\ smain = "join_stdin"
  /\ spc[sess].stdin = "done"
  /\ smain' = "join_stdout"
  /\ UNCHANGED <<role, cvars, sess, child, killed, spc, sexit, peer, netIn,
                 peerSent, pipeOut, engSent, sbuf, engine_stdin, conn_out, netRead,
                 pipeRead>>

\* a variant of SrvJoinStdout: main does not wait for the thread
SrvJoinStdoutNoWait ==
  /\ smain = "join_stdout"
  /\ smain' = "kill"
  /\ UNCHANGED <<role, cvars, sess, child, killed, spc, sexit, peer, netIn,
                 peerSent, pipeOut, engSent, sbuf, engine_stdin, conn_out, netRead,
                 pipeRead>>

\* let _ = stdout_thread.join()
SrvJoinStdout ==
  /\ smain = "join_stdout"
  /\ spc[sess].stdout = "done"
  /\ smain' = "kill"
  /\ UNCHANGED <<role, cvars, sess, child, killed, spc, sexit, peer, netIn,
                 peerSent, pipeOut, engSent, sbuf, engine_stdin, conn_out, netRead,
                 pipeRead>>

\* let _ = child.kill(): SIGKILL ends a running engine; one that has already
\* exited stays as it is
Kill ==
  /\ smain = "kill"
  /\ child' = [child EXCEPT ![sess] = "exited"]
  /\ killed' = [killed EXCEPT ![sess] = TRUE]
  /\ smain' = "wait"
  /\ UNCHANGED <<role, cvars, sess, spc, sexit, peer, netIn, peerSent, pipeOut,
                 engSent, sbuf, engine_stdin, conn_out, netRead, pipeRead>>

\* a variant of Wait: main returns without waiting for the engine to exit
WaitNoReap ==
  /\ smain = "wait"
  /\ smain' = "accept"
  /\ UNCHANGED <<role, cvars, sess, child, killed, spc, sexit, peer, netIn,
                 peerSent, pipeOut, engSent, sbuf, engine_stdin, conn_out, netRead,
                 pipeRead>>

\* let _ = child.wait(): returns once the engine has exited, and reaps it;
\* handle_client returns, "Client disconnected", back to the accept loop
Wait ==
  /\ smain = "wait"
  /\ child[sess] = "exited"
  /\ child' = [child EXCEPT ![sess] = "reaped"]
  /\ smain' = "accept"
  /\ UNCHANGED <<role, cvars, sess, killed, spc, sexit, peer, netIn, peerSent,
                 pipeOut, engSent, sbuf, engine_stdin, conn_out, netRead, pipeRead>>

\* a pump thread of the current session can take a step
Alive == smain \notin {"none", "crashed"} /\ sess >= 1

\* a variant of SrvStdinRead: a read of zero bytes does not end the loop
SrvStdinReadNoEof ==
  /\ Alive
  /\ spc[sess].stdin = "read"
  /\ netIn # <<>>
  /\ sbuf' = [sbuf EXCEPT !.stdin = Head(netIn)]
  /\ netRead' = Append(netRead, Head(netIn))
  /\ netIn' = Tail(netIn)
  /\ SGoto("stdin", "write")
  /\ UNCHANGED <<role, cvars, smain, sess, child, killed, sexit, peer, peerSent,
                 pipeOut, engSent, engine_stdin, conn_out, pipeRead>>

\* stdin_thread, read_stream.read(&mut buf): Ok(n) with the next chunk in flight,
\* or Ok(0) => break when the peer has closed and nothing is left; blocks otherwise
SrvStdinRead ==
  /\ Alive
  /\ spc[sess].stdin = "read"
  /\ IF netIn # <<>>
     THEN /\ sbuf' = [sbuf EXCEPT !.stdin = Head(netIn)]
          /\ netRead' = Append(netRead, Head(netIn))
          /\ netIn' = Tail(netIn)
          /\ SGoto("stdin", "write")
          /\ UNCHANGED sexit
     ELSE /\ peer = "closed"
          /\ SExit("stdin", "eof")
          /\ UNCHANGED <<netIn, sbuf, netRead>>
  /\ UNCHANGED <<role, cvars, smain, sess, child, killed, peer, peerSent,
                 pipeOut, engSent, engine_stdin, conn_out, pipeRead>>

\* Err(_) => break: the read fails (a reset connection)
SrvStdinReadErr ==
  /\ Alive
  /\ spc[sess].stdin = "read"
  /\ SExit("stdin", "read_error")
  /\ UNCHANGED <<role, cvars, smain, sess, child, killed, peer, netIn,
                 peerSent, pipeOut, engSent, sbuf, engine_stdin, conn_out, netRead,
                 pipeRead>>

\* engine_stdin.write_all(&buf[..n]) succeeds (the engine runs); flush
SrvStdinWrite ==
  /\ Alive
  /\ spc[sess].stdin = "write"
  /\ child[sess] = "running"
  /\ engine_stdin' = engine_stdin \o sbuf.stdin
  /\ SGoto("stdin", "read")
  /\ UNCHANGED <<role, cvars, smain, sess, child, killed, sexit, peer, netIn,
                 peerSent, pipeOut, engSent, sbuf, conn_out, netRead, pipeRead>>

\* engine_stdin.write_all fails after k bytes (the engine has exited, or has
\* closed its stdin): break
SrvStdinWriteFail ==
  /\ Alive
  /\ spc[sess].stdin = "write"
  /\ \E k \in Partial(sbuf.stdin) :
       engine_stdin' = engine_stdin \o Prefix(sbuf.stdin, k)
  /\ SExit("stdin", "write_error")
  /\ UNCHANGED <<role, cvars, smain, sess, child, killed, peer, netIn,
                 peerSent, pipeOut, engSent, sbuf, conn_out, netRead, pipeRead>>

\* stdout_thread, engine_stdout.read(&mut buf): Ok(n) with the next chunk in the
\* pipe, or Ok(0) => break when the engine has closed its stdout; blocks otherwise
SrvStdoutRead ==
  /\ Alive
  /\ spc[sess].stdout = "read"
  /\ IF pipeOut # <<>>
     THEN /\ sbuf' = [sbuf EXCEPT !.stdout = Head(pipeOut)]
          /\ pipeRead' = Append(pipeRead, Head(pipeOut))
          /\ pipeOut' = Tail(pipeOut)
          /\ SGoto("stdout", "write")
          /\ UNCHANGED sexit
     ELSE /\ child[sess] # "running"
          /\ SExit("stdout", "eof")
          /\ UNCHANGED <<pipeOut, sbuf, pipeRead>>
  /\ UNCHANGED <<role, cvars, smain, sess, child, killed, peer, netIn,
                 peerSent, engSent, engine_stdin, conn_out, netRead>>

\* Err(_) => break
SrvStdoutReadErr ==
  /\ Alive
  /\ spc[sess].stdout = "read"
  /\ SExit("stdout", "read_error")
  /\ UNCHANGED <<role, cvars, smain, sess, child, killed, peer, netIn,
                 peerSent, pipeOut, engSent, sbuf, engine_stdin, conn_out, netRead,
                 pipeRead>>

\* write_stream.write_all(&buf[..n]) succeeds; flush
SrvStdoutWrite ==
  /\ Alive
  /\ spc[sess].stdout = "write"
  /\ conn_out' = conn_out \o sbuf.stdout
  /\ SGoto("stdout", "read")
  /\ UNCHANGED <<role, cvars, smain, sess, child, killed, sexit, peer, netIn,
                 peerSent, pipeOut, engSent, sbuf, engine_stdin, netRead, pipeRead>>

\* write_stream.write_all fails after k bytes: break
SrvStdoutWriteFail ==
  /\ Alive
  /\ spc[sess].stdout = "write"
  /\ \E k \in Partial(sbuf.stdout) : conn_out' = conn_out \o Prefix(sbuf.stdout, k)
  /\ SExit("stdout", "write_error")
  /\ UNCHANGED <<role, cvars, smain, sess, child, killed, peer, netIn,
                 peerSent, pipeOut, engSent, sbuf, engine_stdin, netRead, pipeRead>>

\* the environment of the server: the peer and the engine

\* the peer sends a chunk
PeerSend ==
  /\ InSession
  /\ peer = "open"
  /\ netIn = <<>>
  /\ peerSent < MaxChunks
  /\ netIn' = <<ChunkAt(peerSent + 1)>>
  /\ peerSent' = peerSent + 1
  /\ UNCHANGED <<role, cvars, smain, sess, child, killed, spc, sexit, peer, pipeOut,
                 engSent, sbuf, engine_stdin, conn_out, netRead, pipeRead>>

\* the peer closes the connection
PeerClose ==
  /\ InSession
  /\ peer = "open"
  /\ peer' = "closed"
  /\ UNCHANGED <<role, cvars, smain, sess, child, killed, spc, sexit, netIn,
                 peerSent, pipeOut, engSent, sbuf, engine_stdin, conn_out, netRead,
                 pipeRead>>

\* the engine writes a chunk to its stdout
EngineWrite ==
  /\ Alive
  /\ child[sess] = "running"
  /\ pipeOut = <<>>
  /\ engSent < MaxChunks
  /\ pipeOut' = <<ChunkAt(engSent + 1)>>
  /\ engSent' = engSent + 1
  /\ UNCHANGED <<role, cvars, smain, sess, child, killed, spc, sexit, peer, netIn,
                 peerSent, sbuf, engine_stdin, conn_out, netRead, pipeRead>>

\* the engine exits of its own accord, which closes its stdout
EngineExit ==
  /\ Alive
  /\ child[sess] = "running"
  /\ child' = [child EXCEPT ![sess] = "exited"]
  /\ UNCHANGED <<role, cvars, smain, sess, killed, spc, sexit, peer, netIn,
                 peerSent, pipeOut, engSent, sbuf, engine_stdin, conn_out, netRead,
                 pipeRead>>

ServerMain ==
  \/ Accept
  \/ AcceptErr
  \/ AcceptPanic
  \/ Spawn
  \/ SpawnPanic
  \/ Setup
  \/ SetupPanic
  \/ SrvJoinStdin
  \/ SrvJoinStdout
  \/ Kill
  \/ Wait

SrvStdinThread ==
  \/ SrvStdinRead
  \/ SrvStdinReadErr
  \/ SrvStdinWrite
  \/ SrvStdinWriteFail

SrvStdoutThread ==
  \/ SrvStdoutRead
  \/ SrvStdoutReadErr
  \/ SrvStdoutWrite
  \/ SrvStdoutWriteFail

ServerEnv ==
  \/ PeerSend
  \/ PeerClose
  \/ EngineWrite
  \/ EngineExit

ServerNext == ServerMain \/ SrvStdinThread \/ SrvStdoutThread \/ ServerEnv

\* ------------------------------------------------------ specifications

Init == ClientInit \/ ServerInit

Next == ClientNext \/ ServerNext

Spec == Init /\ [][Next]_vars

\* The server alone, with the fairness its scheduling gives: a thread that can
\* take a step of its own takes one, and so does main inside handle_client.
\* Nothing obliges the peer or the engine to act, a read to fail, or a
\* connection to arrive.
ServerFairSpec ==
  /\ ServerInit
  /\ [][ServerNext]_vars
  /\ WF_vars(SrvStdinRead \/ SrvStdinWrite \/ SrvStdinWriteFail)
  /\ WF_vars(SrvStdoutRead \/ SrvStdoutWrite \/ SrvStdoutWriteFail)
  /\ WF_vars(SrvJoinStdin \/ SrvJoinStdout \/ Kill \/ Wait)

\* ------------------------------------------------------------- claims

\* what the outbound pump of the running program has read, unit by unit, in the
\* form it forwards them: each terminal line with its "\n" (client), each chunk
\* of the engine's stdout (server)
OutUnits ==
  IF role = "client"
  THEN [i \in 1 .. Len(linesRead) |-> line_with_newline(linesRead[i])]
  ELSE pipeRead

\* the bytes the connection has accepted from the outbound pump
OutSink == IF role = "client" THEN write_stream ELSE conn_out

OutPc ==
  IF role = "client" THEN cpc.stdin
  ELSE IF sess >= 1 THEN spc[sess].stdout ELSE "none"

OutExit == IF role = "client" THEN cexit.stdin ELSE sexit.stdout

\* what the inbound pump has read from the connection, and what its local sink
\* (the client's stdout, the engine's stdin) has accepted
InUnits == IF role = "client" THEN chunksRead ELSE netRead

InSink == IF role = "client" THEN stdout ELSE engine_stdin

\* C1, as claimed: whenever the outbound pump is not between the read and the
\* write of a unit, the connection has received exactly the concatenation of
\* the units read.
C1_OutboundExact == OutPc # "write" => OutSink = Flatten(OutUnits)

\* C1, amended: the connection has always received a prefix of the
\* concatenation of the units read, with every unit before the last one whole;
\* it has received all of it unless the pump is between the read and the write
\* of the last unit, or left its loop because that write failed, and then the
\* last unit is there in part only (and never sent again).
C1_OutboundPrefix ==
  /\ IsPrefix(OutSink, Flatten(OutUnits))
  /\ OutUnits # <<>> => IsPrefix(Flatten(Front(OutUnits)), OutSink)
  /\ OutPc = "write" => OutSink = Flatten(Front(OutUnits))
  /\ OutExit = "write_error" => OutSink # Flatten(OutUnits)
  /\ (OutPc # "write" /\ OutExit # "write_error") => OutSink = Flatten(OutUnits)

\* a second line was cut by a failing write, after a first one went out whole
C1_Witness ==
  /\ role = "client"
  /\ cexit.stdin = "write_error"
  /\ Len(linesRead) = 2
  /\ Len(write_stream) > Len(line_with_newline(linesRead[1]))

\* C2, as claimed: the local sink holds the chunks read from the connection in
\* read order, and nothing of a later chunk after an earlier chunk failed to
\* be delivered: what the sink has accepted is a prefix of the concatenation
\* of the chunks read.
C2_InboundPrefix == IsPrefix(InSink, Flatten(InUnits))

\* the client's stdin_thread has read a line that trims to quit
QuitRead == linesRead # <<>> /\ IsQuit(Last(linesRead))

\* C3, as claimed: once the stdin_thread has left its loop after reading a line
\* that trims to quit, the shutdown flag is set, on every path.
C3_QuitSetsShutdown == (cpc.stdin = "done" /\ QuitRead) => shutdown

\* C4, as claimed: once the stdin_thread has read quit and ended, the
\* stdout_thread completes at most one more read of the connection.
C4_OnePollAfterQuit == (cpc.stdin = "done" /\ QuitRead) => polls <= 1

\* C5: a read of zero bytes ends the stdout_thread and leaves the shutdown flag
\* and the stdin_thread as they are; main reaches closed only with both threads
\* ended, the stdin_thread by a path of its own; and with both ended, main is
\* never stuck short of closed.
C5_PeerClose ==
  /\ [][(cpc.stdout = "read" /\ cexit'.stdout = "eof")
          => (/\ cpc'.stdout = "done"
              /\ shutdown' = shutdown
              /\ cpc'.stdin = cpc.stdin
              /\ cexit'.stdin = cexit.stdin)]_vars
  /\ [](cmain = "closed"
          => (/\ cpc.stdin = "done"
              /\ cpc.stdout = "done"
              /\ cexit.stdin \in {"eof", "read_error", "write_error", "quit"}))
  /\ []((role = "client" /\ cpc.stdin = "done" /\ cpc.stdout = "done"
          /\ cmain # "closed") => ENABLED ClientMain)

\* the peer closed first, the stdin_thread ended later on end of input, closed
C5_Witness ==
  /\ cmain = "closed"
  /\ cexit.stdout = "eof"
  /\ cexit.stdin = "eof"
  /\ ~shutdown
  /\ Len(linesRead) >= 1

\* C6: whenever handle_client has returned and main is back in the accept loop,
\* the engine of every session so far was killed and has been reaped.
C6_ChildCleanup ==
  (role = "server" /\ smain = "accept")
    => \A k \in 1 .. sess : child[k] = "reaped" /\ killed[k]

\* a session ended whose pumps left on errors, with the engine still running
\* until the kill
C6_Witness ==
  /\ smain = "accept"
  /\ sess >= 1
  /\ sexit.stdin = "read_error"
  /\ sexit.stdout = "write_error"
  /\ child[sess] = "reaped"

\* both pumps of the current session have been started and not yet joined
Relaying == smain \in {"join_stdin", "join_stdout"}

SessionOver == smain = "accept" /\ sess >= 1 /\ child[sess] = "reaped"

\* C7, as claimed: once either side of a running session has closed, the
\* session ends: pumps joined, engine reaped, main back in the accept loop.
C7_EitherSideCloses ==
  (Relaying /\ (peer = "closed" \/ child[sess] = "exited")) ~> SessionOver

\* C7, amended: once both sides of a running session have closed (the peer the
\* connection, the engine its stdout), the session ends.
C7_BothSidesClose ==
  (Relaying /\ peer = "closed" /\ child[sess] = "exited") ~> SessionOver

\* the engine had exited, the peer closed later, and the session ended with both
\* pumps on end of stream
C7_Witness ==
  /\ SessionOver
  /\ peer = "closed"
  /\ sexit.stdin = "eof"
  /\ sexit.stdout = "eof"
  /\ netRead # <<>>

\* C8: at most one engine is alive and at most one session's pumps run; every
\* session before the current one has its pumps ended and its engine reaped,
\* and no later session has an engine yet.
C8_Sequential ==
  role = "server" =>
    /\ \A j, k \in Sessions :
         (child[j] \in {"running", "exited"} /\ child[k] \in {"running", "exited"})
           => j = k
    /\ \A j, k \in Sessions :
         ((\E t \in Threads : spc[j][t] \in {"read", "write"})
            /\ (\E t \in Threads : spc[k][t] \in {"read", "write"}))
           => j = k
    /\ \A k \in Sessions :
         k < sess => (/\ child[k] = "reaped"
                      /\ killed[k]
                      /\ spc[k].stdin = "done"
                      /\ spc[k].stdout = "done")
    /\ \A k \in Sessions :
         k > sess => child[k] = "none" /\ spc[k].stdin = "none"

\* the second connection has its own engine running, the first one's is reaped
C8_Witness ==
  /\ sess = 2
  /\ child[2] = "running"
  /\ child[1] = "reaped"
  /\ spc[2].stdin = "read"

\* the record of a tee: its marker and its payload
Record(t) == Marker(t.dir) \o t.payload

\* C9, as claimed: the log is a concatenation of whole records, in the order of
\* the tees (while a tee runs, its marker is the end of the log).
C9_WholeRecords ==
  IF lock = ""
  THEN logfile = Flatten([i \in 1 .. Len(tees) |-> Record(tees[i])])
  ELSE logfile = Flatten([i \in 1 .. Len(tees) - 1 |-> Record(tees[i])])
                   \o Marker(Last(tees).dir)

\* C9, amended: the two threads are never both inside a tee, and the log is the
\* concatenation, tee after tee, of what each tee's writes put in the file:
\* nothing of one tee lies between bytes of another. A tee none of whose
\* writes failed has put its whole record there (its marker, while it runs).
C9_TeeAtomic ==
  /\ ~(cpc.stdin = "payload" /\ cpc.stdout = "payload")
  /\ lock # "" <=> (\E t \in Threads : cpc[t] = "payload")
  /\ logfile = Flatten([i \in 1 .. Len(tees) |-> tees[i].written])
  /\ \A i \in 1 .. Len(tees) :
       ~tees[i].failed =>
         tees[i].written = IF i = Len(tees) /\ lock # ""
                           THEN Marker(tees[i].dir)
                           ELSE Record(tees[i])

\* one thread is inside its tee while the other one waits for the lock, with
\* records of both directions already in the log
C9_Witness ==
  /\ lock = "stdin"
  /\ cpc.stdout = "tee"
  /\ \E i, j \in 1 .. Len(tees) - 1 : tees[i].dir = "stdin" /\ tees[j].dir = "stdout"

IsMarkerAt(log, i) ==
  i + 2 <= Len(log) /\ SubSeq(log, i, i + 2) \in {MarkerOut, MarkerIn}

\* the first position from i on where a marker starts, Len(log) + 1 if none does
RECURSIVE NextMarker(_, _)
NextMarker(log, i) ==
  IF i > Len(log) \/ IsMarkerAt(log, i) THEN i ELSE NextMarker(log, i + 1)

\* The log read back: a record runs from a marker to the next one. Bytes before
\* the first marker make a record of direction "?". (No payload of the model
\* holds a marker; the format has no other delimiter.)
RECURSIVE Records(_)
Records(log) ==
  IF log = <<>> THEN <<>>
  ELSE IF IsMarkerAt(log, 1)
       THEN LET n == NextMarker(log, 4)
            IN  <<[dir |-> IF SubSeq(log, 1, 3) = MarkerOut THEN "stdin" ELSE "stdout",
                   payload |-> SubSeq(log, 4, n - 1)]>>
                  \o Records(SubSeq(log, n, Len(log)))
       ELSE LET n == NextMarker(log, 1)
            IN  <<[dir |-> "?", payload |-> SubSeq(log, 1, n - 1)]>>
                  \o Records(SubSeq(log, n, Len(log)))

IsOut(r) == r.dir = "stdin"
IsIn(r) == r.dir = "stdout"
Payloads(rs) == [i \in 1 .. Len(rs) |-> rs[i].payload]

C11_NoLogWhenDisabled ==
  (role = "client" /\ ~enable_logging) =>
    /\ logfile = <<>>
    /\ tees = <<>>
    /\ lock = ""
    /\ \A t \in Threads : cpc[t] \notin {"tee", "payload"}

\* a whole session without logging, two lines sent and two chunks forwarded
C11_Witness ==
  /\ role = "client"
  /\ ~enable_logging
  /\ cmain = "closed"
  /\ Len(sent) = 2
  /\ Len(forwarded) = 2

\* C12: main is past the join of a thread only when that thread has ended; the
\* connection is shut down, and "Disconnected" reported, only with both threads
\* ended.
C12_TeardownAfterJoins ==
  /\ cmain \in {"join_stdout", "shutdown", "closed"} => cpc.stdin = "done"
  /\ cmain \in {"shutdown", "closed"} => cpc.stdout = "done"

\* the connection was shut down after both threads had left on errors of their own
C12_Witness ==
  /\ cmain = "closed"
  /\ cexit.stdin = "write_error"
  /\ cexit.stdout = "read_error"
  /\ chunksRead # <<>>

\* C13, as claimed: a pump that has met an I/O error has left its loop. A write
\* that failed shows as a unit read, no longer being written, and not accepted
\* whole by the sink: the pump is then ended, for that reason; and a pump whose
\* read failed is ended.
C13_ErrorsEndPump ==
  /\ role = "client" =>
       /\ (cpc.stdin # "write" /\ Len(sent) < Len(linesRead))
            => (cpc.stdin = "done" /\ cexit.stdin = "write_error")
       /\ (cpc.stdout # "write" /\ Len(forwarded) < Len(chunksRead))
            => cpc.stdout = "done"
       /\ \A t \in Threads : cexit[t] # "" => cpc[t] = "done"
  /\ (role = "server" /\ sess >= 1) =>
       /\ (spc[sess].stdin # "write" /\ engine_stdin # Flatten(netRead))
            => (spc[sess].stdin = "done" /\ sexit.stdin = "write_error")
       /\ (spc[sess].stdout # "write" /\ conn_out # Flatten(pipeRead))
            => (spc[sess].stdout = "done" /\ sexit.stdout = "write_error")
       /\ \A t \in Threads : sexit[t] # "" => spc[sess][t] = "done"

\* C14: a step of a tee, whether its log write fails or not, moves its thread
\* to the place the code continues at (from the marker to the payload, from the
\* payload to the quit test or to the flag test), and leaves the connection,
\* stdout, what was sent and forwarded, the shutdown flag and both threads' exit
\* reasons as they are; the other thread does not move.
C14_TeeNeverInterrupts ==
  [][\A t \in Threads :
       (cpc[t] \in {"tee", "payload"} /\ cpc'[t] # cpc[t]) =>
         /\ cpc'[t] = IF cpc[t] = "tee" THEN "payload"
                      ELSE IF t = "stdin" THEN "quit" ELSE "check"
         /\ \A u \in Threads \ {t} : cpc'[u] = cpc[u]
         /\ UNCHANGED <<write_stream, stdout, sent, forwarded, shutdown, cexit,
                        cmain, line, buf>>]_vars

\* the tee of the first line failed, and the stdin_thread went on to send a
\* second line, quit, and to signal shutdown
C14_Witness ==
  /\ tees # <<>>
  /\ tees[1].dir = "stdin"
  /\ tees[1].failed
  /\ Len(sent) = 2
  /\ shutdown

\* C15: the shutdown flag changes only in the step in which the stdin_thread
\* leaves its loop at the quit test, and the stdout_thread does not move in that
\* step; the stdin_thread ends only on end of input, a read error, a failed
\* connection write or a quit line of its own (sent whole before); the step in
\* which the stdout_thread ends changes neither the flag nor the stdin_thread,
\* and the only thing the stdout_thread does with the flag is to end on it.
C15_CooperativeOnly ==
  /\ [][shutdown' # shutdown
          => (/\ cpc.stdin = "quit"
              /\ cpc'.stdin = "done"
              /\ cexit'.stdin = "quit"
              /\ cpc'.stdout = cpc.stdout)]_vars
  /\ [][(cpc.stdout # "done" /\ cpc'.stdout = "done")
          => (/\ shutdown' = shutdown
              /\ cpc'.stdin = cpc.stdin
              /\ cexit'.stdin = cexit.stdin)]_vars
  /\ [](cexit.stdin \in {"", "eof", "read_error", "write_error", "quit"})
  /\ [](cexit.stdin = "quit"
          => (QuitRead /\ Len(sent) = Len(linesRead)))
  /\ [](cexit.stdin = "write_error" => Len(sent) < Len(linesRead))
  /\ [](cexit.stdout = "shutdown" => shutdown)

\* the peer has closed and the stdout_thread has ended, and the stdin_thread is
\* still forwarding: it is writing its second line, the flag not set
C15_Witness ==
  /\ cpc.stdout = "done"
  /\ cexit.stdout = "eof"
  /\ cpc.stdin = "write"
  /\ Len(linesRead) = 2
  /\ Len(sent) = 1
  /\ ~shutdown

\* C16: a read of the stdout_thread that returns neither data nor an end (a
\* timeout) takes the thread to the flag test and nowhere else; from the flag
\* test the thread issues another read when the flag is false, and ends, for
\* that reason and with no read in between, when it is set; the thread never
\* ends for any reason but end of stream, a read error or the flag.
C16_TimeoutRepolls ==
  /\ [][(/\ cpc.stdout = "read"
          /\ cpc'.stdout # "read"
          /\ chunksRead' = chunksRead
          /\ cexit'.stdout \notin {"eof", "read_error"})
          => (cpc'.stdout = "check" /\ cexit'.stdout = "")]_vars
  /\ [][(cpc.stdout = "check" /\ cpc'.stdout # "check")
          => IF shutdown
             THEN /\ cpc'.stdout = "done"
                  /\ cexit'.stdout = "shutdown"
                  /\ polls' = polls
                  /\ chunksRead' = chunksRead
             ELSE /\ cpc'.stdout = "read"
                  /\ cexit'.stdout = ""]_vars
  /\ [](cexit.stdout \in {"", "eof", "read_error", "shutdown"})

\* the flag is false (the write of quit failed), two reads and more have timed
\* out since, and the stdout_thread is in yet another read
C16_Witness ==
  /\ cpc.stdin = "done"
  /\ cexit.stdin = "write_error"
  /\ ~shutdown
  /\ polls = 2
  /\ chunksRead = <<>>
  /\ cpc.stdout = "read"

\* C17: the shutdown flag starts false, and no step takes it from true back to
\* false.
C17_ShutdownMonotonic ==
  /\ ~shutdown
  /\ [][shutdown => shutdown']_vars

\* the flag was set, the stdout_thread ended on it, and it is still set when the
\* session is over
C17_Witness ==
  /\ shutdown
  /\ cexit.stdout = "shutdown"
  /\ cmain = "closed"

\* C18: whenever the shutdown flag is set, the last line read trims to quit, it
\* was sent whole with its newline and is the last unit sent, the connection
\* holds exactly the units sent, and with logging that unit's tee is done.
C18_QuitSentBeforeSignal ==
  shutdown =>
    /\ QuitRead
    /\ Len(sent) = Len(linesRead)
    /\ Last(sent) = line_with_newline(Last(linesRead))
    /\ write_stream = Flatten(sent)
    /\ enable_logging =>
         /\ Payloads(SelectSeq(tees, IsOut)) = sent
         /\ lock # "stdin"

\* with logging, the flag was set by a second line, " quit" before a CR LF
C18_Witness ==
  /\ shutdown
  /\ enable_logging
  /\ Len(sent) = 2
  /\ Last(linesRead) = <<SP, "q", "u", "i", "t">>

\* C19: while the shutdown flag is set, the stdout_thread has completed at most
\* one read of the connection, and handed at most one chunk to stdout, since
\* the flag was set; and once it has done either and is back at the flag test,
\* it can only end.
C19_BoundedAfterShutdown ==
  shutdown =>
    /\ polls <= 1
    /\ fwds <= 1
    /\ polls = 1 => cpc.stdout # "read"
    /\ fwds = 1 => cpc.stdout \notin {"read", "write"}

\* the peer's chunk arrived in the read that was under way when the flag was set:
\* it was read, forwarded, and the thread then ended on the flag
C19_Witness ==
  /\ shutdown
  /\ polls = 1
  /\ fwds = 1
  /\ cexit.stdout = "shutdown"

\* C20, as claimed: an engine that was spawned and is still running has a
\* session supervising it: it is the engine of the current session, and main
\* is inside handle_client, on its way to the kill.
C20_NoOrphanedChild ==
  role = "server" =>
    \A k \in Sessions :
      child[k] = "running" =>
        (k = sess /\ smain \in {"setup", "join_stdin", "join_stdout", "kill"})

====
